---- MODULE Spec2Model ----
(***************************************************************************)
(* A model of the market scanner of src/entry.py: the scan loop (main),    *)
(* the paginated universe fetch (get_all_tickers), the per-ticker fetch    *)
(* tasks (get_ticker_data) behind the connection cap of process_tickers,   *)
(* the filter, and the result file written by save_results.                *)
(*                                                                         *)
(* Times are whole seconds of exchange-local wall-clock time counted from  *)
(* midnight of day 0.  Prices and volumes are integers; every quotient the *)
(* code computes is kept as an exact fraction <<n, d>> with d > 0.         *)
(***************************************************************************)
EXTENDS Integers, Sequences, FiniteSets, TLC

\* ---------------------------------------------------------------- bounds
NumTickers == 2
MaxPages == 2
MaxIterations == 2
MaxReadDelay == 2
PoolTickers == 51
MaxBars == 2
PairTickers == 51

\* ------------------------------------------------------ program constants
MIN_RSI == 15
MAX_RSI == 40
VOLUME_INCREASE_THRESHOLD == 2
CMF_PERIOD == 20
AVG_WINDOW == 20
MARKET_OPEN == 14400
MARKET_CLOSE == 72000
IDLE_SLEEP == 300
CONN_LIMIT == 100
HTTP_OK == 200
DAY == 86400
EST_OFFSET == -18000
EDT_OFFSET == -14400
LMT_OFFSET == -17760

\* ------------------------------------------------------ exact fractions
Abs(x) == IF x < 0 THEN -x ELSE x

RECURSIVE GCD(_, _)
GCD(a, b) == IF b = 0 THEN a ELSE GCD(b, a % b)

\* the fraction n/d in lowest terms with a positive denominator (d # 0)
Rat(n, d) ==
    LET g == GCD(Abs(n), Abs(d))
        s == IF d < 0 THEN -1 ELSE 1
    IN  <<(s * n) \div g, (s * d) \div g>>

RatInt(n) == <<n, 1>>
RatAdd(p, q) == Rat(p[1] * q[2] + q[1] * p[2], p[2] * q[2])
RatMul(p, q) == Rat(p[1] * q[1], p[2] * q[2])
\* p / q for q # 0
RatDiv(p, q) == Rat(p[1] * q[2], p[2] * q[1])
RatLE(p, q) == p[1] * q[2] <= q[1] * p[2]
RatLT(p, q) == p[1] * q[2] < q[1] * p[2]

\* ------------------------------------------------ sequences, Python slices
Min(a, b) == IF a < b THEN a ELSE b
Max(a, b) == IF a > b THEN a ELSE b

\* s[lo:hi] of a Python list, 0-based and half-open, clipped to the list
Slice(s, lo, hi) ==
    IF Min(hi, Len(s)) <= lo THEN << >> ELSE SubSeq(s, lo + 1, Min(hi, Len(s)))

\* sum(s[lo..hi]), 1-based and closed, halving the range
RECURSIVE SumRange(_, _, _)
SumRange(s, lo, hi) ==
    IF lo > hi THEN 0
    ELSE IF lo = hi THEN s[lo]
    ELSE LET mid == (lo + hi) \div 2
         IN  SumRange(s, lo, mid) + SumRange(s, mid + 1, hi)

SumSeq(s) == SumRange(s, 1, Len(s))

\* ------------------------------------------------------------ calculate_cmf
\* the loop body counting a bar with high = low as closing at its high
MoneyFlowVolumeFlatOne(bar) ==
    LET money_flow_multiplier ==
            IF bar.h # bar.l
            THEN Rat((bar.c - bar.l) - (bar.h - bar.c), bar.h - bar.l)
            ELSE RatInt(1)
    IN  RatMul(money_flow_multiplier, RatInt(bar.v))

\* one pass of the loop body: the bar's money-flow volume
MoneyFlowVolume(bar) ==
    LET money_flow_multiplier ==
            IF bar.h # bar.l
            THEN Rat((bar.c - bar.l) - (bar.h - bar.c), bar.h - bar.l)
            ELSE RatInt(0)
    IN  RatMul(money_flow_multiplier, RatInt(bar.v))

\* the sum of the money-flow volumes of bars[lo..hi], halving the range
RECURSIVE MoneyFlowRange(_, _, _)
MoneyFlowRange(bars, lo, hi) ==
    IF lo > hi THEN RatInt(0)
    ELSE IF lo = hi THEN MoneyFlowVolume(bars[lo])
    ELSE LET mid == (lo + hi) \div 2
         IN  RatAdd(MoneyFlowRange(bars, lo, mid), MoneyFlowRange(bars, mid + 1, hi))

MoneyFlowVolSum(bars) == MoneyFlowRange(bars, 1, Len(bars))

VolumeSum(bars) == SumSeq([i \in 1..Len(bars) |-> bars[i].v])

calculate_cmf(bars) ==
    IF bars = << >> THEN RatInt(0)
    ELSE IF VolumeSum(bars) > 0
         THEN RatDiv(MoneyFlowVolSum(bars), RatInt(VolumeSum(bars)))
         ELSE RatInt(0)

\* --------------------------------------------------- provider responses
Tickers == 1..NumTickers

Bar(h, l, c, v) == [h |-> h, l |-> l, c |-> c, v |-> v]

\* a daily-bar series, most recent first: one bar followed by n-1 equal bars
Series(n, first, rest) == <<first>> \o [i \in 1..(n - 1) |-> rest]

RsiBody(kind, value) == [kind |-> kind, value |-> value]
VolBody(kind, bars) == [kind |-> kind, bars |-> bars]

RsiValues == {14, 15, 40, 41}

\* bodies the RSI endpoint may answer with on status 200
RsiBodies ==
    {RsiBody("malformed", 0), RsiBody("noresults", 0)}
        \cup {RsiBody("value", v) : v \in RsiValues}

\* 21 bars closing high, today's volume twice the 20-day average
SurgeSeries == Series(21, Bar(12, 8, 11, 40), Bar(12, 8, 11, 20))
\* the same with today's volume just under twice the average
QuietSeries == Series(21, Bar(12, 8, 11, 39), Bar(12, 8, 11, 20))
\* 21 bars with high = low = close: a money flow of zero
FlatSeries == Series(21, Bar(10, 10, 10, 40), Bar(10, 10, 10, 20))
\* a recent listing: 5 bars only
ShortSeries == Series(5, Bar(12, 8, 11, 40), Bar(12, 8, 11, 20))

BarSeries == {SurgeSeries, QuietSeries, FlatSeries, ShortSeries}

\* bodies the daily-bars endpoint may answer with on status 200
VolBodies ==
    {VolBody("malformed", << >>), VolBody("noresults", << >>)}
        \cup {VolBody("bars", b) : b \in BarSeries}

\* ---------------------------------------------------------- get_ticker_data
NoneData ==
    [some |-> FALSE, rsi |-> 0, volume_increase |-> RatInt(0), cmf |-> RatInt(0),
     current_volume |-> 0, avg_volume |-> RatInt(0)]

\* the metrics with the average taken over the latest 20 bars, the current
\* one included
MetricsFromCurrent(rsi_value, results) ==
    LET volumes == [i \in 1..Len(results) |-> results[i].v]
        current_volume == volumes[1]
        avg_volume == Rat(SumSeq(Slice(volumes, 0, 20)), AVG_WINDOW)
        volume_increase ==
            IF RatLT(RatInt(0), avg_volume)
            THEN RatDiv(RatInt(current_volume), avg_volume)
            ELSE RatInt(0)
        cmf == calculate_cmf(Slice(results, 0, CMF_PERIOD))
    IN  [some |-> TRUE, rsi |-> rsi_value, volume_increase |-> volume_increase,
         cmf |-> cmf, current_volume |-> current_volume,
         avg_volume |-> avg_volume]

\* lines 144-161: the metrics of a ticker whose two bodies carry results
Metrics(rsi_value, results) ==
    LET volumes == [i \in 1..Len(results) |-> results[i].v]
        current_volume == volumes[1]
        avg_volume == Rat(SumSeq(Slice(volumes, 1, 21)), AVG_WINDOW)
        volume_increase ==
            IF RatLT(RatInt(0), avg_volume)
            THEN RatDiv(RatInt(current_volume), avg_volume)
            ELSE RatInt(0)
        cmf == calculate_cmf(Slice(results, 0, CMF_PERIOD))
    IN  [some |-> TRUE, rsi |-> rsi_value, volume_increase |-> volume_increase,
         cmf |-> cmf, current_volume |-> current_volume,
         avg_volume |-> avg_volume]

\* get_ticker_data giving up only when both statuses are bad
TickerDataBothBad(rsi_status, rsi_body, vol_status, vol_body) ==
    IF rsi_status # HTTP_OK /\ vol_status # HTTP_OK THEN NoneData
    ELSE IF rsi_body.kind = "malformed" \/ vol_body.kind = "malformed" THEN NoneData
    ELSE IF rsi_body.kind = "noresults" \/ vol_body.kind = "noresults" THEN NoneData
    ELSE Metrics(rsi_body.value, vol_body.bars)

\* lines 133-168: what get_ticker_data returns for two completed responses
TickerData(rsi_status, rsi_body, vol_status, vol_body) ==
    IF rsi_status # HTTP_OK \/ vol_status # HTTP_OK THEN NoneData
    ELSE IF rsi_body.kind = "malformed" \/ vol_body.kind = "malformed" THEN NoneData
    ELSE IF rsi_body.kind = "noresults" \/ vol_body.kind = "noresults" THEN NoneData
    ELSE Metrics(rsi_body.value, vol_body.bars)

\* ---------------------------------------------------------- process_tickers
\* the filter with the upper RSI bound taken as exclusive
PassesFilterBelowMax(data) ==
    /\ data.some
    /\ MIN_RSI <= data.rsi /\ data.rsi < MAX_RSI
    /\ RatLE(RatInt(VOLUME_INCREASE_THRESHOLD), data.volume_increase)
    /\ RatLT(RatInt(0), data.cmf)

\* lines 181-184: the filter of the dict comprehension
PassesFilter(data) ==
    /\ data.some
    /\ MIN_RSI <= data.rsi /\ data.rsi <= MAX_RSI
    /\ RatLE(RatInt(VOLUME_INCREASE_THRESHOLD), data.volume_increase)
    /\ RatLT(RatInt(0), data.cmf)

\* a connector without a limit
ConnectionAlways(inUse) == TRUE

\* line 174: the connector hands out a connection only below its limit
ConnectionAvailable(inUse) == inUse < CONN_LIMIT

\* ------------------------------------------------------------- save_results
Token(tok, ticker, data) == [tok |-> tok, ticker |-> ticker, data |-> data]

\* json.dump of the mapping: an opening brace, one entry per key in dict
\* order, a closing brace
Dump(results) ==
    <<Token("{", 0, NoneData)>>
        \o [i \in 1..Len(results) |-> Token("entry", results[i].ticker, results[i].data)]
        \o <<Token("}", 0, NoneData)>>

\* the file content is one complete JSON object
IsSnapshot(content) ==
    /\ Len(content) >= 2
    /\ content[1].tok = "{"
    /\ content[Len(content)].tok = "}"
    /\ \A i \in 2..(Len(content) - 1) : content[i].tok = "entry"

\* json.load of a complete file: the mapping back
Load(content) ==
    [i \in 1..(Len(content) - 2) |->
        [ticker |-> content[i + 1].ticker, data |-> content[i + 1].data]]

\* ------------------------------------------------------------ market clock
TimeOfDay(t) == t % DAY
DateOf(t) == t \div DAY

\* a loop that scans whatever the time
is_market_open_always(t) == TRUE

\* the comparison of line 201 with the two bounds excluded
is_market_open_exclusive(t) == MARKET_OPEN < TimeOfDay(t) /\ TimeOfDay(t) < MARKET_CLOSE

\* line 201, for the reading t of the exchange-local clock
is_market_open(t) == MARKET_OPEN <= TimeOfDay(t) /\ TimeOfDay(t) <= MARKET_CLOSE

\* lines 230-234: now is the reading t at UTC offset `offset`; the open time
\* is built with the zone object as tzinfo, which carries the zone's LMT offset
SleepSeconds(t, offset) ==
    LET next_market_open ==
            DateOf(t) * DAY + MARKET_OPEN
                + (IF TimeOfDay(t) > MARKET_CLOSE THEN DAY ELSE 0)
    IN  (next_market_open - LMT_OFFSET) - (t - offset)

\* ------------------------------------------------------------------ state
VARIABLES
    pc,             \* where main's loop stands
    clock,          \* the exchange-local wall clock, in seconds
    offset,         \* the UTC offset datetime.now(EASTERN_TZ) reports (EST or EDT)
    iterations,     \* iterations of `while True` begun
    sleep_seconds,  \* main's sleep_seconds, as last computed
    slept,          \* the duration of the sleep last taken
    next_url,       \* get_all_tickers: the page to request next, 0 for none
    all_tickers,    \* get_all_tickers: the tickers accumulated
    page_requests,  \* get_all_tickers: ticker-list requests answered so far
    pages,          \* get_all_tickers: the provider's answers to this call, in order
    tasks,          \* per ticker: its get_ticker_data task and two requests
    results,        \* main's results: the filtered mapping, in dict order
    file,           \* entry.json as a reader sees it
    written,        \* save_results: tokens of the dump handed to the file so far
    log,            \* the messages logged at INFO or ERROR in this iteration
    previous,       \* entry.json as it was when this iteration began
    poolQueue,      \* connector at scale: requests waiting for a connection
    poolOpen,       \* connector at scale: connections in use
    poolDone,       \* connector at scale: requests completed
    poolMark,       \* connector at scale: the observed request's creation index
    calcBars,       \* the metrics alone: the daily bars of a response, latest first
    calcData,       \* the metrics alone: what lines 144-161 make of calcBars
    calcCmf,        \* the metrics alone: what calculate_cmf returns for calcBars
    pairMode,       \* tasks at scale: when a connection is free again (see SpecPairs)
    pairHead,       \* tasks at scale: the task whose bar request is next in the queue
    pairBoth,       \* tasks at scale: tasks with both requests in flight
    pairOne,        \* tasks at scale: tasks with one request answered, one in flight
    pairDone        \* tasks at scale: tasks that returned

vars ==
    <<pc, clock, offset, iterations, sleep_seconds, slept, next_url, all_tickers,
      page_requests, pages, tasks, results, file, written, log, previous,
      poolQueue, poolOpen, poolDone, poolMark, calcBars, calcData, calcCmf,
      pairMode, pairHead, pairBoth, pairOne, pairDone>>

loopVars == <<clock, offset, iterations, sleep_seconds, slept>>
universeVars == <<next_url, all_tickers, page_requests, pages>>
poolVars == <<poolQueue, poolOpen, poolDone, poolMark>>
calcVars == <<calcBars, calcData, calcCmf>>
pairVars == <<pairMode, pairHead, pairBoth, pairOne, pairDone>>

\* a ticker without a task in this cycle
NoTask ==
    [st |-> "none", rsi |-> "none", vol |-> "none", rsi_status |-> 0,
     vol_status |-> 0, rsi_kind |-> "unread", vol_kind |-> "unread",
     vol_bars |-> 0, requests |-> 0, data |-> NoneData]

\* lines 122-128: a task just created by gather; both requests ask the
\* connector for a connection
NewTask == [NoTask EXCEPT !.st = "running", !.rsi = "queued", !.vol = "queued"]

NoFile == [exists |-> FALSE, content |-> << >>]

\* calculate_cmf has not returned
NoCmf == [some |-> FALSE, value |-> RatInt(0)]

\* no response in hand, nothing computed
NoCalc == calcBars = << >> /\ calcData = NoneData /\ calcCmf = NoCmf

\* no task counted
NoPairs ==
    /\ pairMode = "eof" /\ pairHead = "none"
    /\ pairBoth = 0 /\ pairOne = 0 /\ pairDone = 0

\* a start late in the trading window and one after the close
ScanStartTimes == {71701, 72001}

\* starts around the open, in the window, around the close and in the night
LoopStartTimes == {7200, 14220, 14399, 14400, 43200, 71700, 72000, 72001, 75600}

Start ==
    /\ pc = "check"
    /\ iterations = 0
    /\ sleep_seconds = 0
    /\ slept = 0
    /\ next_url = 0
    /\ all_tickers = << >>
    /\ page_requests = 0
    /\ pages = << >>
    /\ tasks = [t \in Tickers |-> NoTask]
    /\ results = << >>
    /\ file = NoFile
    /\ written = 0
    /\ log = << >>
    /\ previous = NoFile

Init ==
    /\ Start
    /\ clock \in ScanStartTimes
    /\ offset = EDT_OFFSET
    /\ poolQueue = 0 /\ poolOpen = 0 /\ poolDone = 0 /\ poolMark = 0
    /\ NoCalc
    /\ NoPairs

\* ------------------------------------------------------------- main's loop
\* the exception of a cycle reaching lines 237-239, which log and re-raise
OnCycleErrorReraise == "crashed"

\* lines 224-227: an exception of the cycle is logged and the loop goes on
\* to the idle sleep
OnCycleError == "idle"

\* lines 210-213 and 228-229: the market check at the top of an iteration
CheckMarket ==
    /\ pc = "check"
    /\ iterations < MaxIterations
    /\ iterations' = iterations + 1
    /\ IF is_market_open(clock)
       THEN /\ pc' = "universe"
            /\ next_url' = 1
            /\ all_tickers' = << >>
            /\ page_requests' = 0
            /\ pages' = << >>
            /\ log' = <<"Starting scan cycle">>
       ELSE /\ pc' = "closed"
            /\ log' = <<"Market closed - waiting for next session">>
            /\ UNCHANGED universeVars
    /\ previous' = file
    /\ UNCHANGED <<clock, offset, sleep_seconds, slept, tasks, results, file,
                   written, poolVars, calcVars, pairVars>>

\* lines 230-234: the clock is read again, d seconds after the check
ComputeWait(d) ==
    /\ pc = "closed"
    /\ clock' = clock + d
    /\ sleep_seconds' = SleepSeconds(clock + d, offset)
    /\ pc' = "wait"
    /\ UNCHANGED <<offset, iterations, slept, universeVars, tasks, results, file,
                   written, log, previous, poolVars, calcVars, pairVars>>

\* line 235: asyncio.sleep returns at once for a delay that is not positive
WaitForOpen ==
    /\ pc = "wait"
    /\ slept' = Max(sleep_seconds, 0)
    /\ clock' = clock + Max(sleep_seconds, 0)
    /\ pc' = "check"
    /\ UNCHANGED <<offset, iterations, sleep_seconds, universeVars, tasks, results,
                   file, written, log, previous, poolVars, calcVars, pairVars>>

\* line 227
IdleSleep ==
    /\ pc = "idle"
    /\ slept' = IDLE_SLEEP
    /\ clock' = clock + IDLE_SLEEP
    /\ pc' = "check"
    /\ UNCHANGED <<offset, iterations, sleep_seconds, universeVars, tasks, results,
                   file, written, log, previous, poolVars, calcVars, pairVars>>

\* ---------------------------------------------------------- get_all_tickers
Range(seq) == {seq[i] : i \in 1..Len(seq)}

\* the next n symbols of the provider's list, after those already returned
NextTickers(have, n) == [i \in 1..n |-> Len(have) + i]

\* main handing an empty list on to process_tickers and save_results
AfterEmptyUniverseSaves == "save"

\* lines 218-223: where main stands after get_all_tickers returned an empty
\* list: past the if, at the end of the cycle
AfterEmptyUniverse == "idle"

\* lines 91-92 and 218-223: get_all_tickers, having logged `errors`, returns
\* `list` to main, which runs process_tickers on a list that is not empty
\* (lines 174-177: one task per ticker) and otherwise completes the cycle
ReturnTickers(list, errors) ==
    /\ next_url' = 0
    /\ page_requests' = 0
    /\ all_tickers' = list
    /\ IF list # << >>
       THEN /\ tasks' = [t \in Tickers |-> IF t \in Range(list) THEN NewTask ELSE NoTask]
            /\ pc' = "gather"
            /\ log' = log \o errors \o <<"Total tickers retrieved">>
       ELSE /\ tasks' = [t \in Tickers |-> NoTask]
            /\ pc' = AfterEmptyUniverse
            /\ log' = log \o errors \o <<"Total tickers retrieved", "Scan cycle completed">>

\* the list with a page's tickers taking the place of those before
ExtendedReplacing(have, new_tickers) == new_tickers

\* line 76: all_tickers.extend(new_tickers)
Extended(have, new_tickers) == have \o new_tickers

\* the answer to the request for `url`: a transport exception or a body that
\* is not JSON, a status that is not 200, or a page of tickers with (more) a
\* next_url
Page(url, outcome, new_tickers, more) ==
    [url |-> url, outcome |-> outcome,
     tickers |-> IF outcome = "ok" THEN new_tickers ELSE << >>,
     more |-> outcome = "ok" /\ more]

\* lines 67-69 and 87-89: what the loop logs before it breaks
PageErrors(outcome) ==
    IF outcome = "status" THEN <<"Failed to fetch tickers">>
    ELSE IF outcome = "exception" THEN <<"Error in ticker pagination">>
    ELSE << >>

\* lines 61-89: one pass of the pagination loop.  outcome: the request raised,
\* or answered with a status that is not 200, or with a page of n tickers and
\* (more) a next_url
FetchPage(outcome, n, more) ==
    /\ pc = "universe"
    /\ next_url # 0
    /\ pages' = Append(pages, Page(next_url, outcome, NextTickers(all_tickers, n), more))
    /\ IF outcome # "ok" \/ n = 0
       THEN ReturnTickers(all_tickers, PageErrors(outcome))
       ELSE IF more
            THEN /\ all_tickers' = Extended(all_tickers, NextTickers(all_tickers, n))
                 /\ next_url' = next_url + 1
                 /\ page_requests' = page_requests + 1
                 /\ UNCHANGED <<pc, tasks, log>>
            ELSE ReturnTickers(Extended(all_tickers, NextTickers(all_tickers, n)), << >>)
    /\ UNCHANGED <<loopVars, results, file, written, previous, poolVars, calcVars, pairVars>>

\* ---------------------------------------------------------- get_ticker_data
Request(task, k) == IF k = "rsi" THEN task.rsi ELSE task.vol
Sibling(k) == IF k = "rsi" THEN "vol" ELSE "rsi"
SetRequest(task, k, v) ==
    IF k = "rsi" THEN [task EXCEPT !.rsi = v] ELSE [task EXCEPT !.vol = v]
SetStatus(task, k, status) ==
    IF k = "rsi" THEN [task EXCEPT !.rsi_status = status]
    ELSE [task EXCEPT !.vol_status = status]

\* connections of the scan's connector that are in use
InUse ==
    Cardinality({<<t, k>> \in Tickers \X {"rsi", "vol"} : Request(tasks[t], k) = "open"})

Statuses == {HTTP_OK, 429}

\* a task's exception reaching gather, and through it main's except clause
OnTaskErrorPropagates == "idle"

\* lines 166-168: where the scan stands after a ticker's task caught an error
OnTaskError == "gather"

\* lines 125-128 and 166-168: request k of the task raised; the task group
\* cancels the other request if it is still pending, and the task returns None
AfterFailure(task, k) ==
    LET other == Request(task, Sibling(k))
        failed == SetRequest(task, k, "failed")
        cancelled ==
            IF other \in {"queued", "open"}
            THEN SetRequest(failed, Sibling(k), "cancelled")
            ELSE failed
    IN  [cancelled EXCEPT !.st = "done", !.data = NoneData]

\* lines 127-128: session.get takes a connection of the connector and sends
Acquire(t, k) ==
    /\ pc = "gather"
    /\ tasks[t].st = "running"
    /\ Request(tasks[t], k) = "queued"
    /\ ConnectionAvailable(InUse)
    /\ tasks' = [tasks EXCEPT
                    ![t] = [SetRequest(@, k, "open") EXCEPT !.requests = @ + 1]]
    /\ UNCHANGED <<pc, loopVars, universeVars, results, file, written, log, previous, poolVars, calcVars, pairVars>>

\* the provider answers request k with a status; the connection is free again
Respond(t, k, status) ==
    /\ pc = "gather"
    /\ tasks[t].st = "running"
    /\ Request(tasks[t], k) = "open"
    /\ tasks' = [tasks EXCEPT ![t] = SetStatus(SetRequest(@, k, "done"), k, status)]
    /\ UNCHANGED <<pc, loopVars, universeVars, results, file, written, log, previous, poolVars, calcVars, pairVars>>

\* the transport fails on request k
Fail(t, k) ==
    /\ pc = "gather"
    /\ tasks[t].st = "running"
    /\ Request(tasks[t], k) = "open"
    /\ tasks' = [tasks EXCEPT ![t] = AfterFailure(@, k)]
    /\ pc' = OnTaskError
    /\ UNCHANGED <<loopVars, universeVars, results, file, written, log, previous, poolVars, calcVars, pairVars>>

\* lines 130-164: both requests are answered; the bodies are read only when
\* both statuses are 200
Finish(t, rsi_body, vol_body) ==
    /\ pc = "gather"
    /\ tasks[t].st = "running"
    /\ tasks[t].rsi = "done" /\ tasks[t].vol = "done"
    /\ LET read == tasks[t].rsi_status = HTTP_OK /\ tasks[t].vol_status = HTTP_OK
       IN  tasks' = [tasks EXCEPT ![t] =
                [@ EXCEPT !.st = "done",
                          !.rsi_kind = IF read THEN rsi_body.kind ELSE "unread",
                          !.vol_kind = IF read THEN vol_body.kind ELSE "unread",
                          !.vol_bars = IF read THEN Len(vol_body.bars) ELSE 0,
                          !.data = TickerData(tasks[t].rsi_status, rsi_body,
                                              tasks[t].vol_status, vol_body)]]
    /\ UNCHANGED <<pc, loopVars, universeVars, results, file, written, log, previous, poolVars, calcVars, pairVars>>

\* ---------------------------------------------------------- process_tickers
\* lines 179-185: the dict comprehension over gather's results, in task order
RECURSIVE FilteredResults(_, _)
FilteredResults(list, done) ==
    IF list = << >> THEN << >>
    ELSE LET t == Head(list)
             rest == FilteredResults(Tail(list), done)
         IN  IF PassesFilter(done[t].data)
             THEN <<[ticker |-> t, data |-> done[t].data]>> \o rest
             ELSE rest

\* a wait that returns with the first task to return
FirstReturned == \E t \in Range(all_tickers) : tasks[t].st = "done"

\* line 177: gather returns once every task has returned
AllReturned == \A t \in Range(all_tickers) : tasks[t].st = "done"

\* lines 177-188 and 219: gather returns, the results are filtered and handed
\* to main; the session, the tasks and their results end with process_tickers
Join ==
    /\ pc = "gather"
    /\ AllReturned
    /\ results' = FilteredResults(all_tickers, tasks)
    /\ tasks' = [t \in Tickers |-> NoTask]
    /\ pc' = "save"
    /\ log' = Append(log, "Found stocks matching criteria")
    /\ UNCHANGED <<loopVars, universeVars, file, written, previous, poolVars, calcVars, pairVars>>

\* ------------------------------------------------------------- save_results
\* the file opened for appending
OpenedContentAppend(old) == old

\* line 194: what open(..., 'w') leaves of the file's previous content
OpenedContent(old) == << >>

SaveOpen ==
    /\ pc = "save"
    /\ file' = [exists |-> TRUE, content |-> OpenedContent(file.content)]
    /\ written' = 0
    /\ pc' = "writing"
    /\ UNCHANGED <<loopVars, universeVars, tasks, results, log, previous, poolVars, calcVars, pairVars>>

\* line 194 raises (the file cannot be opened): lines 224-225
SaveOpenFails ==
    /\ pc = "save"
    /\ pc' = OnCycleError
    /\ log' = Append(log, "Error in scan cycle")
    /\ UNCHANGED <<loopVars, universeVars, tasks, results, file, written, previous, poolVars, calcVars, pairVars>>

\* line 195: json.dump hands the next n tokens of the dump to the file
SaveWrite(n) ==
    /\ pc = "writing"
    /\ written + n <= Len(Dump(results))
    /\ written' = written + n
    /\ file' = [file EXCEPT !.content = @ \o SubSeq(Dump(results), written + 1, written + n)]
    /\ UNCHANGED <<pc, loopVars, universeVars, tasks, results, log, previous, poolVars, calcVars, pairVars>>

\* line 195 raises (the device is full): lines 224-225
SaveWriteFails ==
    /\ pc = "writing"
    /\ written < Len(Dump(results))
    /\ pc' = OnCycleError
    /\ log' = Append(log, "Error in scan cycle")
    /\ UNCHANGED <<loopVars, universeVars, tasks, results, file, written, previous, poolVars, calcVars, pairVars>>

\* lines 194-196 and 222-223: the dump is complete, the file is closed
SaveClose ==
    /\ pc = "writing"
    /\ written = Len(Dump(results))
    /\ pc' = "idle"
    /\ log' = log \o <<"Saved analysis results", "Scan cycle completed">>
    /\ UNCHANGED <<loopVars, universeVars, tasks, results, file, written, previous, poolVars, calcVars, pairVars>>

\* ------------------------------------------------------------ specification
Next ==
    \/ CheckMarket
    \/ \E d \in 0..MaxReadDelay : ComputeWait(d)
    \/ WaitForOpen
    \/ IdleSleep
    \/ \E outcome \in {"ok", "status", "exception"}, more \in BOOLEAN :
        \E n \in 0..(NumTickers - Len(all_tickers)) :
            /\ more => next_url < MaxPages
            /\ FetchPage(outcome, n, more)
    \/ \E t \in Tickers, k \in {"rsi", "vol"} : Acquire(t, k)
    \/ \E t \in Tickers, k \in {"rsi", "vol"}, status \in Statuses : Respond(t, k, status)
    \/ \E t \in Tickers, k \in {"rsi", "vol"} : Fail(t, k)
    \/ \E t \in Tickers, rsi_body \in RsiBodies, vol_body \in VolBodies :
        Finish(t, rsi_body, vol_body)
    \/ Join
    \/ SaveOpen
    \/ SaveOpenFails
    \/ \E n \in 1..(NumTickers + 2) : SaveWrite(n)
    \/ SaveWriteFails
    \/ SaveClose

Spec == Init /\ [][Next]_vars

\* ------------------------------------- the loop around the clock (SpecLoop)
\* The same program from every start time and in both seasons, with the
\* provider's bodies drawn from two each.
LoopRsiBodies == {RsiBody("value", 15), RsiBody("noresults", 0)}
LoopVolBodies == {VolBody("bars", SurgeSeries)}

LoopInit ==
    /\ Start
    /\ clock \in LoopStartTimes
    /\ offset \in {EST_OFFSET, EDT_OFFSET}
    /\ poolQueue = 0 /\ poolOpen = 0 /\ poolDone = 0 /\ poolMark = 0
    /\ NoCalc
    /\ NoPairs

LoopNext ==
    \/ CheckMarket
    \/ \E d \in 0..MaxReadDelay : ComputeWait(d)
    \/ WaitForOpen
    \/ IdleSleep
    \/ \E outcome \in {"ok", "status", "exception"}, more \in BOOLEAN :
        \E n \in 0..(NumTickers - Len(all_tickers)) :
            /\ more => next_url < MaxPages
            /\ FetchPage(outcome, n, more)
    \/ \E t \in Tickers, k \in {"rsi", "vol"} : Acquire(t, k)
    \/ \E t \in Tickers, k \in {"rsi", "vol"}, status \in Statuses : Respond(t, k, status)
    \/ \E t \in Tickers, k \in {"rsi", "vol"} : Fail(t, k)
    \/ \E t \in Tickers, rsi_body \in LoopRsiBodies, vol_body \in LoopVolBodies :
        Finish(t, rsi_body, vol_body)
    \/ Join
    \/ SaveOpen
    \/ SaveOpenFails
    \/ \E n \in 1..(NumTickers + 2) : SaveWrite(n)
    \/ SaveWriteFails
    \/ SaveClose

SpecLoop == LoopInit /\ [][LoopNext]_vars

\* --------------------------------- the connector at its limit (SpecPool)
\* process_tickers over PoolTickers tickers: 2 * PoolTickers requests ask the
\* connector for a connection in the order they were created, and the
\* connector serves its waiters first come, first served.  The requests are
\* counted, not named; poolMark is the place in that order of one of them.
PoolRequests == 2 * PoolTickers

PoolInit ==
    /\ Start
    /\ clock = 43200
    /\ offset = EDT_OFFSET
    /\ poolQueue = PoolRequests
    /\ poolOpen = 0
    /\ poolDone = 0
    /\ poolMark \in {1, CONN_LIMIT, CONN_LIMIT + 1, PoolRequests}
    /\ NoCalc
    /\ NoPairs

mainVars ==
    <<pc, clock, offset, iterations, sleep_seconds, slept, next_url, all_tickers,
      page_requests, pages, tasks, results, file, written, log, previous>>

\* lines 127-128 under line 174: the request at the head of the queue takes a
\* connection when one is free
PoolAcquire ==
    /\ poolQueue > 0
    /\ ConnectionAvailable(poolOpen)
    /\ poolQueue' = poolQueue - 1
    /\ poolOpen' = poolOpen + 1
    /\ UNCHANGED <<poolDone, poolMark, mainVars, calcVars, pairVars>>

\* a request in flight is answered, or fails: its connection is free again
PoolRelease ==
    /\ poolOpen > 0
    /\ poolOpen' = poolOpen - 1
    /\ poolDone' = poolDone + 1
    /\ UNCHANGED <<poolQueue, poolMark, mainVars, calcVars, pairVars>>

PoolNext == PoolAcquire \/ PoolRelease

\* the event loop runs every ready callback, and the provider answers every
\* request it was sent
SpecPool ==
    PoolInit /\ [][PoolNext]_vars /\ WF_vars(PoolAcquire) /\ WF_vars(PoolRelease)

\* ------------------------------------------- the metrics alone (SpecCalc)
\* Lines 144-161 and calculate_cmf applied to daily bars drawn from two
\* families: series of 21 bars and more that differ in their volumes, and
\* sequences of up to MaxBars bars that differ in prices and volumes.
VolumeSeries ==
    {<<Bar(12, 8, 11, v0)>>
        \o [i \in 1..20 |-> Bar(12, 8, 11, IF i <= k THEN a ELSE b)]
        \o [i \in 1..extra |-> Bar(12, 8, 11, 1000)] :
        v0 \in {0, 7, 400}, a \in {0, 200}, b \in {0, 3, 200},
        k \in {0, 7, 20}, extra \in {0, 1, 4}}

\* bars with high above low, with high = low, and one with high below low
PriceBars ==
    {Bar(12, 8, c, v) : c \in {8, 9, 10, 12}, v \in {0, 5, 1000}}
        \cup {Bar(10, 10, 10, v) : v \in {0, 1000}}
        \cup {Bar(100, 100, 100, 1000), Bar(8, 12, 9, 5)}

RECURSIVE SeqsUpTo(_, _)
SeqsUpTo(S, n) ==
    IF n = 0 THEN {<< >>}
    ELSE LET shorter == SeqsUpTo(S, n - 1)
         IN  shorter \cup {Append(q, x) : q \in shorter, x \in S}

CalcInputs == VolumeSeries \cup SeqsUpTo(PriceBars, MaxBars)

CalcInit ==
    /\ Start
    /\ clock = 43200
    /\ offset = EDT_OFFSET
    /\ poolQueue = 0 /\ poolOpen = 0 /\ poolDone = 0 /\ poolMark = 0
    /\ calcBars \in CalcInputs
    /\ calcData = NoneData
    /\ calcCmf = NoCmf
    /\ NoPairs

\* lines 144-161 for a response whose results are not empty (line 140)
ComputeMetrics(rsi_value) ==
    /\ calcBars # << >>
    /\ ~calcData.some
    /\ calcData' = Metrics(rsi_value, calcBars)
    /\ UNCHANGED <<calcBars, calcCmf, mainVars, poolVars, pairVars>>

\* lines 94-116: a call of calculate_cmf
ComputeCmf ==
    /\ ~calcCmf.some
    /\ calcCmf' = [some |-> TRUE, value |-> calculate_cmf(calcBars)]
    /\ UNCHANGED <<calcBars, calcData, mainVars, poolVars, pairVars>>

CalcNext ==
    \/ \E rsi_value \in RsiValues : ComputeMetrics(rsi_value)
    \/ ComputeCmf

SpecCalc == CalcInit /\ [][CalcNext]_vars

\* ------------------------------- the tasks at the limit (SpecPairs)
\* process_tickers over PairTickers tickers, the tasks counted by how far
\* their two requests are.  gather starts the tasks in list order and each
\* creates its RSI request before its bar request (lines 127-128), so the
\* requests ask the connector for a connection in that order and the
\* connector serves them in it: at most one task has its RSI request served
\* and its bar request still waiting (pairHead).  A connection is free again
\* when the body of its response has arrived in full, which for a body that
\* fits the read buffer needs no step of the task (pairMode "eof") and for a
\* longer one the task's read on lines 137-138 (pairMode "read").

\* a task that returned keeping both its connections
HeldByReturnedLeak(n) == 2 * n

\* lines 135-164: connections that n returned tasks still hold: their bodies
\* were read to the end, or their responses dropped with the task
HeldByReturned(n) == 0 * n

\* connections an answered request holds until its task reads the body
HeldByAnswered == IF pairMode = "read" THEN 1 ELSE 0

\* connections of the connector that are in use
PairHeld ==
    2 * pairBoth
        + (1 + HeldByAnswered) * pairOne
        + (IF pairHead = "sent" THEN 1
           ELSE IF pairHead = "answered" THEN HeldByAnswered ELSE 0)
        + HeldByReturned(pairDone)

\* tasks whose RSI request has been served a connection
PairStarted == pairBoth + pairOne + pairDone + (IF pairHead = "none" THEN 0 ELSE 1)

PairInit ==
    /\ Start
    /\ clock = 43200
    /\ offset = EDT_OFFSET
    /\ poolQueue = 0 /\ poolOpen = 0 /\ poolDone = 0 /\ poolMark = 0
    /\ NoCalc
    /\ pairMode \in {"eof", "read"}
    /\ pairHead = "none"
    /\ pairBoth = 0 /\ pairOne = 0 /\ pairDone = 0

\* lines 127-128 under line 174: the request at the head of the queue takes a
\* connection when one is free: the bar request of the task whose RSI request
\* was served last, or else the RSI request of the next task
PairAcquire ==
    /\ ConnectionAvailable(PairHeld)
    /\ \/ /\ pairHead = "none"
          /\ PairStarted < PairTickers
          /\ pairHead' = "sent"
          /\ UNCHANGED <<pairBoth, pairOne>>
       \/ /\ pairHead = "sent"
          /\ pairHead' = "none"
          /\ pairBoth' = pairBoth + 1
          /\ UNCHANGED pairOne
       \/ /\ pairHead = "answered"
          /\ pairHead' = "none"
          /\ pairOne' = pairOne + 1
          /\ UNCHANGED pairBoth
    /\ UNCHANGED <<pairMode, pairDone, mainVars, poolVars, calcVars>>

\* a request in flight is answered; with its second answer a task leaves the
\* task group, runs lines 130-164 and returns
PairRespond ==
    /\ \/ /\ pairBoth > 0
          /\ pairBoth' = pairBoth - 1
          /\ pairOne' = pairOne + 1
          /\ UNCHANGED <<pairHead, pairDone>>
       \/ /\ pairOne > 0
          /\ pairOne' = pairOne - 1
          /\ pairDone' = pairDone + 1
          /\ UNCHANGED <<pairHead, pairBoth>>
       \/ /\ pairHead = "sent"
          /\ pairHead' = "answered"
          /\ UNCHANGED <<pairBoth, pairOne, pairDone>>
    /\ UNCHANGED <<pairMode, mainVars, poolVars, calcVars>>

\* a request in flight fails: the task group cancels the task's other request,
\* in flight or waiting, and the task returns None (lines 166-168)
PairFail ==
    /\ \/ /\ pairBoth > 0
          /\ pairBoth' = pairBoth - 1
          /\ UNCHANGED <<pairHead, pairOne>>
       \/ /\ pairOne > 0
          /\ pairOne' = pairOne - 1
          /\ UNCHANGED <<pairHead, pairBoth>>
       \/ /\ pairHead = "sent"
          /\ pairHead' = "none"
          /\ UNCHANGED <<pairBoth, pairOne>>
    /\ pairDone' = pairDone + 1
    /\ UNCHANGED <<pairMode, mainVars, poolVars, calcVars>>

PairNext == PairAcquire \/ PairRespond \/ PairFail

\* the event loop runs every ready callback, and the provider answers every
\* request it was sent
SpecPairs ==
    PairInit /\ [][PairNext]_vars /\ WF_vars(PairAcquire) /\ WF_vars(PairRespond)

\* ------------------------------------------------------------------ claims
Keys(mapping) == {mapping[i].ticker : i \in 1..Len(mapping)}

\* the filter in the words of the specification
Qualifies(d) ==
    /\ d.some
    /\ 15 <= d.rsi /\ d.rsi <= 40
    /\ d.volume_increase[1] >= 2 * d.volume_increase[2]
    /\ d.cmf[1] > 0

\* C1: when gather returns, the mapping process_tickers hands to main holds
\* exactly the tickers of the list whose task returned metrics with
\* 15 <= rsi <= 40, volume_increase >= 2 and cmf > 0, each with the metrics
\* its task returned.
C1_FilteredExactly ==
    [][(pc = "gather" /\ pc' = "save") =>
        /\ Keys(results') = {t \in Range(all_tickers) : Qualifies(tasks[t].data)}
        /\ Len(results') = Cardinality(Keys(results'))
        /\ \A i \in 1..Len(results') :
            results'[i].data = tasks[results'[i].ticker].data]_vars

\* a scan of two tickers kept one of them, at the inclusive bounds rsi = 40
\* and volume_increase = 2
C1_Witness ==
    /\ pc = "save"
    /\ Len(all_tickers) = 2
    /\ Len(results) = 1
    /\ results[1].data.rsi = 40
    /\ results[1].data.volume_increase = <<2, 1>>

\* a task whose step can still be taken: a request waiting with a connection
\* free, a request in flight, or both answered
CanStep(t) ==
    \/ tasks[t].rsi = "open" \/ tasks[t].vol = "open"
    \/ (tasks[t].rsi = "queued" \/ tasks[t].vol = "queued") /\ InUse < 100
    \/ tasks[t].rsi = "done" /\ tasks[t].vol = "done"

\* C2: a task that ends in failure (bad status, transport error, malformed
\* body: it returns None) leaves the scan in gather and every other task as
\* it was and able to go on; the scan leaves gather only for the filter, and
\* only when every task of the list has returned.
C2_FailureDoesNotAbort ==
    [][pc = "gather" =>
        /\ pc' # "gather" => (pc' = "save" /\ AllReturned)
        /\ \A t \in Tickers :
            (tasks[t].st = "running" /\ tasks'[t].st = "done" /\ ~tasks'[t].data.some) =>
                /\ pc' = "gather"
                /\ \A u \in Tickers \ {t} :
                    /\ tasks'[u] = tasks[u]
                    /\ tasks'[u].st = "running" => CanStep(u)']_vars

\* the first ticker's task failed on its RSI request and the other ticker's
\* task still returned metrics
C2_Witness ==
    /\ pc = "gather"
    /\ tasks[1].st = "done" /\ tasks[1].rsi = "failed"
    /\ tasks[2].st = "done" /\ tasks[2].data.some

Saved == Len(log) >= 2 /\ log[Len(log) - 1] = "Saved analysis results"

\* C3: after a cycle that saved, the file is one complete snapshot which
\* loads back as exactly the mapping of that cycle; nothing of the file's
\* earlier content is left.
C3_SnapshotIsThisCycle ==
    (pc = "idle" /\ Saved) =>
        /\ file.exists
        /\ IsSnapshot(file.content)
        /\ Load(file.content) = results

\* the second of two cycles saved a mapping without a ticker the first
\* cycle's snapshot held
C3_Witness ==
    /\ pc = "idle" /\ Saved
    /\ iterations = 2
    /\ IsSnapshot(previous.content)
    /\ Keys(Load(previous.content)) = {1, 2}
    /\ Keys(results) = {2}

\* C4: a reader never sees a partly written snapshot: whenever the file
\* exists, it holds one complete JSON object.
C4_NoPartialSnapshot == file.exists => IsSnapshot(file.content)

\* C5: get_ticker_data returns None for a ticker whose daily-bar response
\* holds 1 to 20 bars.
C5_ShortSeriesIsNone ==
    \A t \in Tickers :
        (tasks[t].st = "done" /\ tasks[t].vol_bars >= 1 /\ tasks[t].vol_bars <= 20) =>
            ~tasks[t].data.some

\* a task ended without metrics for a reason C6 names
BadOutcome(task) ==
    /\ task.st = "done"
    /\ \/ task.rsi = "failed" \/ task.vol = "failed"
       \/ task.rsi = "done" /\ task.rsi_status # 200
       \/ task.vol = "done" /\ task.vol_status # 200
       \/ task.rsi_kind \in {"malformed", "noresults"}
       \/ task.vol_kind \in {"malformed", "noresults"}

\* C6: a task with a response of bad status, a malformed body or a body
\* without results returns None and leaves the scan in gather; the ticker is
\* not in the cycle's mapping; each of its two requests was sent at most once
\* and none is sent after the task returned.
C6_BadResponseIsNone ==
    [][/\ \A t \in Tickers :
            /\ BadOutcome(tasks[t]) => ~tasks[t].data.some
            /\ tasks[t].requests <= 2
            /\ (tasks[t].st = "running" /\ tasks'[t].st = "done") => pc' = "gather"
            /\ (tasks[t].st = "done" /\ pc' = "gather") => tasks'[t] = tasks[t]
       /\ (pc = "gather" /\ pc' = "save") =>
            \A t \in Tickers : BadOutcome(tasks[t]) => t \notin Keys(results')]_vars

\* one ticker was dropped for a bad status and the other for a body without
\* results, each after two requests, and the scan is ready to join
C6_Witness ==
    /\ pc = "gather"
    /\ tasks[1].st = "done" /\ tasks[1].rsi_status = 429 /\ tasks[1].requests = 2
    /\ tasks[2].st = "done" /\ tasks[2].vol_kind = "noresults" /\ tasks[2].requests = 2

LoopStates == {"check", "closed", "wait", "universe", "gather", "save", "writing", "idle"}

\* C8: the loop is always at one of its own states and, short of the bound on
\* iterations, always has a next step; a step that logs the error of a cycle
\* goes to the idle sleep, which takes 300 seconds and leads to the next
\* market check.
C8_LoopNeverEnds ==
    /\ [](pc \in LoopStates)
    /\ []((pc # "check" \/ iterations < MaxIterations) => ENABLED Next)
    /\ [][/\ (log' # log /\ log'[Len(log')] = "Error in scan cycle") => pc' = "idle"
          /\ pc = "idle" => (pc' = "check" /\ clock' = clock + 300)]_vars

\* a cycle failed while writing the file, the loop slept 300 seconds and is
\* back at the market check
C8_Witness ==
    /\ pc = "check"
    /\ slept = 300
    /\ log # << >> /\ log[Len(log)] = "Error in scan cycle"
    /\ file.exists /\ ~IsSnapshot(file.content)

InWindow(t) == 14400 <= t % 86400 /\ t % 86400 <= 72000
Scanning == {"universe", "gather", "save", "writing"}

\* C9: a universe fetch starts only from a market check inside the window;
\* a scan ends in the idle state only, which sleeps 300 seconds once and
\* returns to the market check; a check outside the window computes the wait,
\* sleeps it without scanning and returns to the market check.
C9_StateMachine ==
    [][/\ (pc' = "universe" /\ pc # "universe") => (pc = "check" /\ InWindow(clock))
       /\ pc = "check" => pc' = (IF InWindow(clock) THEN "universe" ELSE "closed")
       /\ pc \in Scanning => pc' \in Scanning \cup {"idle"}
       /\ pc = "idle" => (pc' = "check" /\ slept' = 300 /\ clock' = clock + 300)
       /\ pc = "closed" => (pc' = "wait" /\ slept' = slept)
       /\ pc = "wait" =>
            /\ pc' = "check"
            /\ slept' = (IF sleep_seconds > 0 THEN sleep_seconds ELSE 0)
            /\ clock' = clock + slept']_vars

\* the loop found the market closed, waited for the open, scanned, slept 300
\* seconds and is back at the market check
C9_Witness ==
    /\ pc = "check"
    /\ iterations = 2
    /\ sleep_seconds > 0
    /\ slept = 300
    /\ log # << >> /\ log[Len(log)] = "Scan cycle completed"

\* C10: the wait computed in the market-closed branch is never negative.
C10_WaitNeverNegative == sleep_seconds >= 0

\* the next 04:00:00 on the exchange's clock, seen from a reading t outside
\* the trading window
NextOpen(t) ==
    IF t % 86400 < 14400 THEN (t \div 86400) * 86400 + 14400
    ELSE (t \div 86400 + 1) * 86400 + 14400

\* C11: for a reading of the clock outside the trading window, the wait
\* computed from it ends exactly at the next 04:00 exchange-local time: the
\* same day's before 04:00, the next day's after 20:00.
C11_WaitEndsAtOpen ==
    (pc = "wait" /\ ~InWindow(clock)) => clock + sleep_seconds = NextOpen(clock)

\* C12: the market check takes the scan branch if and only if the time of day
\* lies in [04:00:00, 20:00:00]: it does at exactly 04:00:00 and 20:00:00 and
\* does not one second before and one second after.
C12_OpenIffInWindow ==
    [][(pc = "check" /\ pc' # "check") =>
        /\ (pc' = "universe") = (4 * 3600 <= clock % 86400 /\ clock % 86400 <= 20 * 3600)
        /\ (pc' = "closed") = (clock % 86400 < 4 * 3600 \/ clock % 86400 > 20 * 3600)
        /\ clock % 86400 \in {4 * 3600, 20 * 3600} => pc' = "universe"
        /\ clock % 86400 \in {4 * 3600 - 1, 20 * 3600 + 1} => pc' = "closed"]_vars

\* a check at 03:59:59 found the market closed and the next one, at 04:00:00
\* sharp, started a scan
C12_Witness ==
    /\ pc = "universe"
    /\ iterations = 2
    /\ clock % 86400 = 4 * 3600
    /\ log = <<"Starting scan cycle">>

\* the tickers of the pages, in the order the pages were served
RECURSIVE Concat(_)
Concat(ps) == IF ps = << >> THEN << >> ELSE Head(ps).tickers \o Concat(Tail(ps))

\* the provider served successful pages that are not empty, each with a cursor
NonEmptyWithCursor(ps) ==
    \A i \in 1..Len(ps) : ps[i].outcome = "ok" /\ ps[i].tickers # << >> /\ ps[i].more

\* a chain of successful pages, none empty, of which only the last has no cursor
CompleteChain(ps) ==
    /\ ps # << >>
    /\ NonEmptyWithCursor(SubSeq(ps, 1, Len(ps) - 1))
    /\ ps[Len(ps)].outcome = "ok" /\ ps[Len(ps)].tickers # << >> /\ ~ps[Len(ps)].more

\* C13: while the provider serves successful pages that are not empty, each
\* with a cursor, get_all_tickers goes on to the next page; once the chain of n
\* such pages ends with a page without a cursor, the call has returned after
\* exactly n requests, one per page in cursor order, and main holds exactly
\* the concatenation of the pages' tickers.
C13_EachPageOnce ==
    /\ (pages # << >> /\ NonEmptyWithCursor(pages)) =>
            (pc = "universe" /\ next_url = Len(pages) + 1)
    /\ CompleteChain(pages) =>
            /\ pc # "universe" /\ next_url = 0
            /\ \A i \in 1..Len(pages) : pages[i].url = i
            /\ all_tickers = Concat(pages)

\* two pages of one ticker each, the second without a cursor: two requests,
\* both tickers handed to main and a task made for each
C13_Witness ==
    /\ pc = "gather"
    /\ Len(pages) = 2 /\ CompleteChain(pages)
    /\ pages[1].tickers = <<1>> /\ pages[2].tickers = <<2>>
    /\ all_tickers = <<1, 2>>

\* C14: a successful page with no tickers that still carries a cursor does
\* not end pagination: after it get_all_tickers requests the next page.
C14_EmptyPageGoesOn ==
    (/\ pages # << >>
     /\ pages[Len(pages)].outcome = "ok"
     /\ pages[Len(pages)].tickers = << >>
     /\ pages[Len(pages)].more) =>
        (pc = "universe" /\ next_url = Len(pages) + 1)

\* the request for the last page served failed
Aborted(ps) == ps # << >> /\ ps[Len(ps)].outcome # "ok"

\* what a call that followed the chain to its end can hand to main: the list
\* in full, whatever its length
CompleteUniverses == {NextTickers(<< >>, m) : m \in 0..NumTickers}

\* C15: after the request for page k failed, get_all_tickers has issued no
\* further request and returned the tickers of pages 1..k-1, and what it
\* returned tells main that the universe is partial: it is no value a complete
\* fetch returns.
C15_AbortIsReported ==
    Aborted(pages) =>
        /\ pc # "universe" /\ next_url = 0
        /\ all_tickers = Concat(SubSeq(pages, 1, Len(pages) - 1))
        /\ all_tickers \notin CompleteUniverses

\* the part of C15 that the code keeps: no further request, the accumulated
\* tickers returned
AbortReturnsAccumulated ==
    Aborted(pages) =>
        /\ pc # "universe" /\ next_url = 0
        /\ all_tickers = Concat(SubSeq(pages, 1, Len(pages) - 1))

\* the sum of the volumes of bars lo..hi (the latest bar is bar 1)
RECURSIVE VolumesOf(_, _, _)
VolumesOf(bs, lo, hi) == IF lo > hi THEN 0 ELSE bs[lo].v + VolumesOf(bs, lo + 1, hi)

\* C16: for a series of 21 bars or more, latest first, volume_increase is the
\* latest bar's volume divided by the mean of the 20 volumes after it (their
\* sum over 20), and 0 when that mean is 0; avg_volume is that mean.
C16_VolumeIncrease ==
    (calcData.some /\ Len(calcBars) >= 21) =>
        LET total == VolumesOf(calcBars, 2, 21)
            vi == calcData.volume_increase
        IN  /\ vi[2] > 0
            /\ calcData.avg_volume[1] * 20 = total * calcData.avg_volume[2]
            /\ IF total = 0 THEN vi[1] = 0
               ELSE vi[1] * total = calcBars[1].v * 20 * vi[2]

\* 22 bars, the latest with volume 400 over twenty of volume 200: an increase
\* of 2, whatever the volume of the bar after them
C16_Witness ==
    /\ calcData.some
    /\ Len(calcBars) = 22
    /\ calcBars[1].v = 400
    /\ \A i \in 2..21 : calcBars[i].v = 200
    /\ calcBars[22].v = 1000
    /\ calcData.volume_increase = <<2, 1>>

\* the least common multiple of the price ranges high - low of the bars,
\* leaving out the bars with high = low
RECURSIVE CommonRange(_, _)
CommonRange(bs, i) ==
    IF i > Len(bs) THEN 1
    ELSE LET rest == CommonRange(bs, i + 1)
             r == IF bs[i].h > bs[i].l THEN bs[i].h - bs[i].l ELSE bs[i].l - bs[i].h
         IN  IF r = 0 THEN rest ELSE (r * rest) \div GCD(r, rest)

\* scale times the sum over the bars of multiplier * volume, the multiplier
\* being ((close - low) - (high - close)) / (high - low), and 0 when high = low
RECURSIVE ScaledFlow(_, _, _)
ScaledFlow(bs, i, scale) ==
    IF i > Len(bs) THEN 0
    ELSE (IF bs[i].h = bs[i].l THEN 0
          ELSE ((bs[i].c - bs[i].l) - (bs[i].h - bs[i].c)) * bs[i].v
                    * (scale \div (bs[i].h - bs[i].l)))
         + ScaledFlow(bs, i + 1, scale)

\* C17: calculate_cmf returns a value for every bar sequence, never dividing
\* by zero: 0 for the empty sequence and when the volumes sum to 0, and
\* otherwise sum(multiplier * volume) / sum(volume).
C17_CmfTotal ==
    calcCmf.some =>
        LET scale == CommonRange(calcBars, 1)
            total == VolumesOf(calcBars, 1, Len(calcBars))
            r == calcCmf.value
        IN  /\ r[2] > 0
            /\ IF calcBars = << >> \/ total = 0 THEN r[1] = 0
               ELSE r[1] * total * scale = r[2] * ScaledFlow(calcBars, 1, scale)

\* the single bar with high = low = close = 100 and volume 1000 gives 0
C17_Witness ==
    /\ calcCmf.some
    /\ calcBars = <<Bar(100, 100, 100, 1000)>>
    /\ calcCmf.value = <<0, 1>>

\* no request of the task is waiting for a connection or in flight
Settled(task) == task.rsi \notin {"queued", "open"} /\ task.vol \notin {"queued", "open"}

\* C18: the tasks of a cycle are made new when its universe fetch returns, and
\* fetches are in flight only between that point and the join; the mapping
\* the join hands to the save holds only tickers of this cycle's list, each
\* with what its own task of this cycle returned, every task of the cycle
\* having returned with no request left in flight; the save, the idle sleep
\* and the next cycle's universe fetch run with no task and no request.
C18_NoOverlapNoLeak ==
    [][/\ (pc = "universe" /\ pc' = "gather") =>
            \A t \in Tickers :
                tasks'[t] = (IF t \in Range(all_tickers') THEN NewTask ELSE NoTask)
       /\ (pc = "gather" /\ pc' # "gather") =>
            /\ pc' = "save"
            /\ \A t \in Tickers :
                /\ tasks[t].st \in {"done", "none"}
                /\ tasks[t].st = "done" <=> t \in Range(all_tickers)
                /\ Settled(tasks[t])
            /\ \A i \in 1..Len(results') :
                /\ results'[i].ticker \in Range(all_tickers)
                /\ results'[i].data = tasks[results'[i].ticker].data
       /\ pc' # "gather" => \A t \in Tickers : tasks'[t] = NoTask]_vars

\* the second cycle listed one ticker and kept it, after a first cycle whose
\* snapshot held two
C18_Witness ==
    /\ pc = "save"
    /\ iterations = 2
    /\ IsSnapshot(previous.content)
    /\ Keys(Load(previous.content)) = {1, 2}
    /\ all_tickers = <<1>>
    /\ Keys(results) = {1}

C20_EmptyUniverseIsNoOp ==
    [][/\ (pc = "universe" /\ pc' # "universe" /\ all_tickers' = << >>) =>
            /\ pc' = "idle"
            /\ \A t \in Tickers : tasks'[t] = NoTask /\ tasks'[t].requests = 0
            /\ file' = file /\ file' = previous'
            /\ results' = results
       /\ (pc = "idle" /\ all_tickers = << >>) =>
            /\ pc' = "check"
            /\ slept' = 300 /\ clock' = clock + 300
            /\ file' = file /\ file' = previous]_vars

\* the first cycle saved a snapshot with a ticker in it; the second cycle's
\* first page request failed, the loop slept 300 seconds, and the snapshot is
\* still the first cycle's
C20_Witness ==
    /\ pc = "check"
    /\ iterations = 2
    /\ Len(pages) = 1 /\ pages[1].outcome = "status"
    /\ all_tickers = << >>
    /\ slept = 300
    /\ file.exists /\ IsSnapshot(file.content)
    /\ Keys(Load(file.content)) # {}
    /\ file = previous

====
